---- MODULE Spec2Model ----
(***************************************************************************)
(* A* search of rs-a_star (src/src/lib.rs, fn a_star) over the Graph2D     *)
(* trait, with two families of graphs: small explicit directed graphs and  *)
(* the D2Q9 wall grid of src/benches/a_star.rs.                            *)
(*                                                                         *)
(* Scores are f64 in the source.  Every score that occurs here is a sum of *)
(* integers and of multiples of sqrt(2) (the diagonal step of the grid),   *)
(* so a finite score is kept exactly as the pair (a, b) standing for       *)
(* a + b*sqrt(2), and +infinity is a score of its own; sums and            *)
(* comparisons are those of the reals, without the rounding of f64.        *)
(*                                                                         *)
(* The capacity estimates of lib.rs 108-119 only size the allocations and  *)
(* are left out.  One step of the model is one pass of the selection, one  *)
(* neighbor of the for loop, or one parent link of the reconstruction.     *)
(***************************************************************************)
EXTENDS Integers, Sequences, FiniteSets, TLC

VARIABLES map, start, goal, open_list, node_info, cur_node, pending, path, pc,
          first_run

vars == <<map, start, goal, open_list, node_info, cur_node, pending, path, pc, first_run>>

(* ---- bounds of the explored inputs ---- *)
NumNodes == 3
MaxEdges == 3
MaxCost == 1
MaxHeur == 1
MaxWidth == 4
MaxHeight == 2

(* ---- f64 scores: a + b*sqrt(2), or +infinity ---- *)
Fin(a, b) == [inf |-> FALSE, a |-> a, b |-> b]

INF == [inf |-> TRUE, a |-> 0, b |-> 0]

Zero == Fin(0, 0)

Add(x, y) == IF x.inf \/ y.inf THEN INF ELSE Fin(x.a + y.a, x.b + y.b)

\* d + e*sqrt(2) < 0
NegSign(d, e) ==
    IF d <= 0 /\ e <= 0 THEN d < 0 \/ e < 0
    ELSE IF d >= 0 /\ e >= 0 THEN FALSE
    ELSE IF d < 0 THEN 2 * e * e < d * d
    ELSE d * d < 2 * e * e

\* x < y on f64 (no NaN arises: +infinity is never subtracted)
Less(x, y) ==
    IF x.inf THEN FALSE
    ELSE IF y.inf THEN TRUE
    ELSE NegSign(x.a - y.a, x.b - y.b)

Leq(x, y) == ~Less(y, x)

Abs(i) == IF i < 0 THEN -i ELSE i

Max(i, j) == IF i < j THEN j ELSE i

(* ---- vertices ---- *)
Node(x, y, w) == [x |-> x, y |-> y, is_wall |-> w]

\* Node::new
NodeNew(x, y) == Node(x, y, FALSE)

\* Option<N>
None == <<>>

Some(n) == <<n>>

RECURSIVE Reverse(_)
Reverse(s) == IF s = <<>> THEN <<>> ELSE Append(Reverse(Tail(s)), Head(s))

(* ---- D2Q9 grid (benches/a_star.rs) ---- *)
\* D2Q9::get_at as an Option
get_at(m, x, y) ==
    IF x >= 0 /\ x < m.width /\ y >= 0 /\ y < m.height
    THEN Some(Node(x, y, <<x, y>> \in m.walls))
    ELSE None

\* (dx, dy) in the order of the two loops, (1, 1) skipped
Deltas == << <<0, 0>>, <<1, 0>>, <<2, 0>>, <<0, 1>>, <<2, 1>>,
             <<0, 2>>, <<1, 2>>, <<2, 2>> >>

RECURSIVE D2Q9_neighbors_from(_, _, _)
D2Q9_neighbors_from(m, from, i) ==
    IF i > Len(Deltas) THEN <<>>
    ELSE LET x == from.x + Deltas[i][1] - 1
             y == from.y + Deltas[i][2] - 1
             rest == D2Q9_neighbors_from(m, from, i + 1)
         IN  IF x < 0 \/ y < 0 \/ get_at(m, x, y) = None THEN rest
             ELSE get_at(m, x, y) \o rest

D2Q9_neighbors(m, from) == D2Q9_neighbors_from(m, from, 1)

\* Some(false) == get_at(x, y).map(|node| node.is_wall)
is_free_at(m, x, y) == get_at(m, x, y) # None /\ ~get_at(m, x, y)[1].is_wall

\* the flanking cells of a diagonal step are not looked at
D2Q9_path_is_transversable_any_diagonal(m, from, to) ==
    LET dist_x == to.x - from.x
        dist_y == to.y - from.y
    IN  IF from = to THEN TRUE
        ELSE IF from.is_wall \/ to.is_wall THEN FALSE
        ELSE IF (from.x = to.x /\ Abs(dist_y) = 1) \/ (from.y = to.y /\ Abs(dist_x) = 1)
             THEN TRUE
        ELSE Abs(dist_x) = Abs(dist_y) /\ Abs(dist_x) = 1

\* a step along a row is not recognised (the y test repeated for the x test)
D2Q9_path_is_transversable_no_row(m, from, to) ==
    LET dist_x == to.x - from.x
        dist_y == to.y - from.y
    IN  IF from = to THEN TRUE
        ELSE IF from.is_wall \/ to.is_wall THEN FALSE
        ELSE IF (from.x = to.x /\ Abs(dist_y) = 1) \/ (from.x = to.x /\ Abs(dist_x) = 1)
             THEN TRUE
        ELSE IF Abs(dist_x) = Abs(dist_y) /\ Abs(dist_x) = 1
             THEN is_free_at(m, from.x, from.y + dist_y) \/ is_free_at(m, from.x + dist_x, from.y)
        ELSE FALSE

D2Q9_path_is_transversable(m, from, to) ==
    LET dist_x == to.x - from.x
        dist_y == to.y - from.y
    IN  IF from = to THEN TRUE
        ELSE IF from.is_wall \/ to.is_wall THEN FALSE
        ELSE IF (from.x = to.x /\ Abs(dist_y) = 1) \/ (from.y = to.y /\ Abs(dist_x) = 1)
             THEN TRUE
        ELSE IF Abs(dist_x) = Abs(dist_y) /\ Abs(dist_x) = 1
             THEN is_free_at(m, from.x, from.y + dist_y) \/ is_free_at(m, from.x + dist_x, from.y)
        ELSE FALSE

\* D2Q9::is_transversable of src/main.rs: both flanking cells must be free
D2Q9_is_transversable(m, from, to) ==
    LET dist_x == to.x - from.x
        dist_y == to.y - from.y
    IN  IF from = to THEN TRUE
        ELSE IF from.is_wall \/ to.is_wall THEN FALSE
        ELSE IF (from.x = to.x /\ Abs(dist_y) = 1) \/ (from.y = to.y /\ Abs(dist_x) = 1)
             THEN TRUE
        ELSE IF Abs(dist_x) = Abs(dist_y) /\ Abs(dist_x) = 1
             THEN is_free_at(m, from.x, from.y + dist_y) /\ is_free_at(m, from.x + dist_x, from.y)
        ELSE FALSE

\* Vertex2D::chebyshev_distance
chebyshev_distance(v, other) == Fin(Max(Abs(other.x - v.x), Abs(other.y - v.y)), 0)

\* Vertex2D::euclidean_distance, on the pairs the search asks about
\* (a vertex and one of its neighbors: 0, 1 or sqrt(2))
euclidean_distance(v, other) ==
    LET ax == Abs(other.x - v.x)
        ay == Abs(other.y - v.y)
    IN  IF ax = 0 THEN Fin(ay, 0)
        ELSE IF ay = 0 THEN Fin(ax, 0)
        ELSE IF ax = ay THEN Fin(0, ax)
        ELSE INF

(* ---- Graph2D ---- *)
neighbors(m, v) ==
    IF m.kind = "grid" THEN D2Q9_neighbors(m, v) ELSE m.nbrs[v]

path_is_transversable(m, v, other) ==
    IF m.kind = "grid" THEN D2Q9_path_is_transversable(m, v, other) ELSE <<v, other>> \in m.trans

heuristic(m, v, other) ==
    IF m.kind = "grid" THEN chebyshev_distance(v, other) ELSE Fin(m.heur[v], 0)

travel_cost(m, v, other) ==
    IF m.kind = "grid" THEN euclidean_distance(v, other) ELSE Fin(m.cost[<<v, other>>], 0)

(* ---- NodeInfo and the HashMap node_info ---- *)
NodeInfo(p, g, f) == [parent |-> p, g_score |-> g, f_score |-> f]

NodeInfoDefault == NodeInfo(None, INF, INF)

\* node_info.entry(n).or_default(): the map afterwards
OrDefault(info, n) == IF n \in DOMAIN info THEN info ELSE (n :> NodeInfoDefault) @@ info

\* node_info.entry(n).or_default(): the record
Entry(info, n) == OrDefault(info, n)[n]

Put(info, n, rec) == (n :> rec) @@ info

(* ---- selection: the fold over open_list.iter() (lib.rs 136-147) ---- *)
RECURSIVE Orders(_)
Orders(S) ==
    IF S = {} THEN {<<>>}
    ELSE UNION {{<<n>> \o s : s \in Orders(S \ {n})} : n \in S}

\* the comparison of the fold turned around: the highest f_score is kept
FoldStepHighest(info, acc, node) ==
    IF Less(Entry(info, node).f_score, Entry(info, acc).f_score) THEN acc ELSE node

\* one step of the fold: keep acc only if its f_score is strictly lower
FoldStep(info, acc, node) ==
    IF Less(Entry(info, acc).f_score, Entry(info, node).f_score) THEN acc ELSE node

RECURSIVE Fold(_, _, _)
Fold(info, acc, rest) ==
    IF rest = <<>> THEN acc
    ELSE Fold(info, FoldStep(info, acc, Head(rest)), Tail(rest))

\* the records the fold's closure creates
RECURSIVE FoldInfo(_, _)
FoldInfo(info, order) ==
    IF Len(order) < 2 THEN info
    ELSE FoldInfo(OrDefault(OrDefault(info, order[1]), order[2]), Tail(order))

(* ---- a_star ---- *)
StartInfo(m, s, g) == NodeInfo(None, Zero, heuristic(m, s, g))

Begin(m, s, g) ==
    /\ map = m
    /\ start = s
    /\ goal = g
    /\ open_list = {s}
    /\ node_info = (s :> StartInfo(m, s, g))
    /\ cur_node = s
    /\ pending = <<>>
    /\ path = <<>>
    /\ pc = "select"
    /\ first_run = None

\* open_list.remove(cur_node) left out
SelectNoRemove ==
    /\ pc = "select"
    /\ open_list # {}
    /\ \E order \in Orders(open_list) :
          /\ cur_node' = Fold(node_info, Head(order), Tail(order))
          /\ node_info' = FoldInfo(node_info, order)
    /\ pending' = neighbors(map, cur_node')
    /\ pc' = "expand"
    /\ UNCHANGED <<first_run, map, start, goal, open_list, path>>

\* while !open_list.is_empty(): pick cur_node, remove it, start on its neighbors
Select ==
    /\ pc = "select"
    /\ open_list # {}
    /\ \E order \in Orders(open_list) :
          /\ cur_node' = Fold(node_info, Head(order), Tail(order))
          /\ node_info' = FoldInfo(node_info, order)
    /\ open_list' = open_list \ {cur_node'}
    /\ pending' = neighbors(map, cur_node')
    /\ pc' = "expand"
    /\ UNCHANGED <<first_run, map, start, goal, path>>

\* the open list ran empty: path is empty and None is returned
Exhausted ==
    /\ pc = "select"
    /\ open_list = {}
    /\ pc' = "done"
    /\ UNCHANGED <<first_run, map, start, goal, open_list, node_info, cur_node, pending, path>>

\* the for loop has no neighbor left
NextNode ==
    /\ pc = "expand"
    /\ pending = <<>>
    /\ pc' = "select"
    /\ UNCHANGED <<first_run, map, start, goal, open_list, node_info, cur_node, pending, path>>

\* if !map.path_is_transversable(cur_node, neighbor) { continue; }
Skip ==
    /\ pc = "expand"
    /\ pending # <<>>
    /\ ~path_is_transversable(map, cur_node, Head(pending))
    /\ pending' = Tail(pending)
    /\ UNCHANGED <<first_run, map, start, goal, open_list, node_info, cur_node, path, pc>>

\* the goal test placed ahead of the transversability test
FoundGoalUnchecked ==
    /\ pc = "expand"
    /\ pending # <<>>
    /\ Head(pending) = goal
    /\ path' = <<cur_node>>
    /\ pc' = "rebuild"
    /\ UNCHANGED <<first_run, map, start, goal, open_list, node_info, cur_node, pending>>

\* if **neighbor == *goal { path.push(cur_node); ...
FoundGoal ==
    /\ pc = "expand"
    /\ pending # <<>>
    /\ path_is_transversable(map, cur_node, Head(pending))
    /\ Head(pending) = goal
    /\ path' = <<cur_node>>
    /\ pc' = "rebuild"
    /\ UNCHANGED <<first_run, map, start, goal, open_list, node_info, cur_node, pending>>

\* the comparison turned around: neighbor_info.g_score < new_g
ImprovesFlipped(old_g, new_g) == Less(old_g, new_g)

\* the comparison made non-strict: neighbor_info.g_score >= new_g
ImprovesOrEqual(old_g, new_g) == Leq(new_g, old_g)

\* the comparison made an inequality test: neighbor_info.g_score != new_g
ImprovesNotEqual(old_g, new_g) == old_g # new_g

\* neighbor_info.g_score > new_g
Improves(old_g, new_g) == Less(new_g, old_g)

\* the heuristic left out of the new f_score
RelaxedNoHeuristic(m, cur, neighbor, g, new_g) == NodeInfo(Some(cur), new_g, new_g)

\* the record written for an improved neighbor (lib.rs 177-180)
Relaxed(m, cur, neighbor, g, new_g) ==
    NodeInfo(Some(cur), new_g, Add(new_g, heuristic(m, neighbor, g)))

\* the relaxation applied to the goal as to any other neighbor
RelaxGoalToo ==
    /\ pc = "expand"
    /\ pending # <<>>
    /\ path_is_transversable(map, cur_node, Head(pending))
    /\ LET neighbor == Head(pending)
           info1 == OrDefault(node_info, cur_node)
           new_g == Add(info1[cur_node].g_score, travel_cost(map, cur_node, neighbor))
           info2 == OrDefault(info1, neighbor)
       IN  IF Improves(info2[neighbor].g_score, new_g)
           THEN /\ node_info' = Put(info2, neighbor, Relaxed(map, cur_node, neighbor, goal, new_g))
                /\ open_list' = open_list \cup {neighbor}
           ELSE /\ node_info' = info2
                /\ open_list' = open_list
    /\ pending' = Tail(pending)
    /\ UNCHANGED <<first_run, map, start, goal, cur_node, path, pc>>

\* lib.rs 173-182
Relax ==
    /\ pc = "expand"
    /\ pending # <<>>
    /\ path_is_transversable(map, cur_node, Head(pending))
    /\ Head(pending) # goal
    /\ LET neighbor == Head(pending)
           info1 == OrDefault(node_info, cur_node)
           new_g == Add(info1[cur_node].g_score, travel_cost(map, cur_node, neighbor))
           info2 == OrDefault(info1, neighbor)
       IN  IF Improves(info2[neighbor].g_score, new_g)
           THEN /\ node_info' = Put(info2, neighbor, Relaxed(map, cur_node, neighbor, goal, new_g))
                /\ open_list' = open_list \cup {neighbor}
           ELSE /\ node_info' = info2
                /\ open_list' = open_list
    /\ pending' = Tail(pending)
    /\ UNCHANGED <<first_run, map, start, goal, cur_node, path, pc>>

\* while node_info.contains_key(cur_node) { if let Some(parent) = ... }
Walk ==
    /\ pc = "rebuild"
    /\ cur_node \in DOMAIN node_info
    /\ node_info[cur_node].parent # None
    /\ cur_node' = node_info[cur_node].parent[1]
    /\ path' = Append(path, cur_node')
    /\ UNCHANGED <<first_run, map, start, goal, open_list, node_info, pending, pc>>

\* path.reverse() left out
FinishUnreversed ==
    /\ pc = "rebuild"
    /\ (cur_node \notin DOMAIN node_info \/ node_info[cur_node].parent = None)
    /\ path' = Append(path, goal)
    /\ pc' = "done"
    /\ UNCHANGED <<first_run, map, start, goal, open_list, node_info, cur_node, pending>>

\* the walk ends; path.reverse(); path.push(goal); break 'list
Finish ==
    /\ pc = "rebuild"
    /\ (cur_node \notin DOMAIN node_info \/ node_info[cur_node].parent = None)
    /\ path' = Append(Reverse(path), goal)
    /\ pc' = "done"
    /\ UNCHANGED <<first_run, map, start, goal, open_list, node_info, cur_node, pending>>

Next == Select \/ Exhausted \/ NextNode \/ Skip \/ FoundGoal \/ Relax \/ Walk \/ Finish

\* a_star is called once more with the same graph, start and goal (as the
\* benches do in b.iter); what the first call returned is kept in first_run
Restart ==
    /\ pc = "done"
    /\ first_run = None
    /\ first_run' = Some(path)
    /\ open_list' = {start}
    /\ node_info' = (start :> StartInfo(map, start, goal))
    /\ cur_node' = start
    /\ pending' = <<>>
    /\ path' = <<>>
    /\ pc' = "select"
    /\ UNCHANGED <<map, start, goal>>

NextPair ==
    \/ Select \/ Exhausted \/ NextNode \/ Skip \/ FoundGoal \/ Relax \/ Walk \/ Finish
    \/ Restart

(* ---- inputs: explicit graphs ---- *)
Nodes == {NodeNew(i, 0) : i \in 1..NumNodes}

RECURSIVE Ascending(_)
Ascending(S) ==
    IF S = {} THEN <<>>
    ELSE LET n == CHOOSE n \in S : \A o \in S : n.x <= o.x
         IN  <<n>> \o Ascending(S \ {n})

EdgeSets == {E \in SUBSET (Nodes \X Nodes) : Cardinality(E) <= MaxEdges}

Graph(E, T, c, h) ==
    [kind |-> "graph",
     nbrs |-> [v \in Nodes |-> Ascending({o \in Nodes : <<v, o>> \in E})],
     trans |-> T,
     cost |-> c,
     heur |-> h]

InitGraph ==
    \E E \in EdgeSets : \E T \in SUBSET E :
    \E c \in [T -> 0..MaxCost] : \E h \in [Nodes -> 0..MaxHeur] :
    \E s \in Nodes : \E g \in Nodes :
        Begin(Graph(E, T, c, h), s, g)

(* ---- inputs: D2Q9 grids ---- *)
Cells(w, h) == (0..(w - 1)) \X (0..(h - 1))

Grid(w, h, walls) == [kind |-> "grid", width |-> w, height |-> h, walls |-> walls]

InitGrid ==
    \E w \in 1..MaxWidth : \E h \in 1..MaxHeight :
    \E walls \in SUBSET Cells(w, h) :
    \E s \in Cells(w, h) : \E g \in Cells(w, h) :
        Begin(Grid(w, h, walls), NodeNew(s[1], s[2]), NodeNew(g[1], g[2]))

Init == InitGraph \/ InitGrid

\* every input: explicit graphs and grids
Spec == Init /\ [][Next]_vars

\* explicit graphs only
SpecGraph == InitGraph /\ [][Next]_vars

\* D2Q9 grids only
SpecGrid == InitGrid /\ [][Next]_vars

\* explicit graphs with one vertex and one step more, every step leading to a
\* vertex of a higher number; the search starts at vertex 1
PairNodes == {NodeNew(i, 0) : i \in 1..(NumNodes + 1)}

PairEdgeSets ==
    {E \in SUBSET {e \in PairNodes \X PairNodes : e[1].x < e[2].x} :
        Cardinality(E) <= MaxEdges + 1}

PairGraph(E, T, c, h) ==
    [kind |-> "graph",
     nbrs |-> [v \in PairNodes |-> Ascending({o \in PairNodes : <<v, o>> \in E})],
     trans |-> T,
     cost |-> c,
     heur |-> h]

InitPair ==
    \E E \in PairEdgeSets : \E T \in SUBSET E :
    \E c \in [T -> 0..MaxCost] : \E h \in [PairNodes -> 0..MaxHeur] :
    \E g \in PairNodes :
        Begin(PairGraph(E, T, c, h), NodeNew(1, 0), g)

\* two calls of a_star in a row on the same input
SpecPair == InitPair /\ [][NextPair]_vars

\* the searches over explicit graphs that start at vertex 1 (the family of
\* graphs is closed under renaming the vertices)
InitGraphFrom1 ==
    \E E \in EdgeSets : \E T \in SUBSET E :
    \E c \in [T -> 0..MaxCost] : \E h \in [Nodes -> 0..MaxHeur] :
    \E g \in Nodes :
        Begin(Graph(E, T, c, h), NodeNew(1, 0), g)

InitFair == InitGraphFrom1 \/ InitGrid

\* a_star is one sequential call: a step that can be taken is taken
SpecFair == InitFair /\ [][Next]_vars /\ WF_vars(Next)

(* ---- reference notions the properties are stated with ---- *)
\* the neighbors a legal step leads to
Succ(m, v) ==
    LET ns == neighbors(m, v)
    IN  {ns[i] : i \in {j \in 1..Len(ns) : path_is_transversable(m, v, ns[j])}}

\* one legal step: other is listed among v's neighbors and the step is transversable
Edge(m, v, other) == other \in Succ(m, v)

\* the vertices that chains of zero or more legal steps from Frontier add to Seen
RECURSIVE Closure(_, _, _)
Closure(m, Seen, Frontier) ==
    IF Frontier = {} THEN Seen
    ELSE LET found == {o : o \in UNION {Succ(m, v) : v \in Frontier}}
             new == {o \in found : o \notin Seen}
         IN  Closure(m, {o : o \in Seen \cup new}, new)

ReachableSet(m, s) == Closure(m, {s}, {s})

\* a chain of one or more legal steps leads from s to g
Reachable(m, s, g) == \E v \in ReachableSet(m, s) : Edge(m, v, g)

MinScore(S) == CHOOSE x \in S : \A y \in S : Leq(x, y)

\* a table of scores: pairs <<vertex, score>>
Get(D, v) == (CHOOSE p \in D : p[1] = v)[2]

\* Bellman-Ford rounds over the legal steps Es between the vertices V
RECURSIVE Rounds(_, _, _, _, _)
Rounds(m, V, Es, D, k) ==
    IF k = 0 THEN D
    ELSE Rounds(m, V, Es,
                {<<o, MinScore({Get(D, o)} \cup
                      {Add(Get(D, e[1]), travel_cost(m, e[1], o)) : e \in {d \in Es : d[2] = o}})>>
                   : o \in V},
                k - 1)

\* cheapest cost of a chain of zero or more legal steps from s, for every
\* vertex such a chain reaches
Dist(m, s) ==
    LET V == ReachableSet(m, s)
        Es == {e : e \in UNION {{<<v, o>> : o \in Succ(m, v)} : v \in V}}
    IN  Rounds(m, V, Es, {<<o, IF o = s THEN Zero ELSE INF>> : o \in V}, Cardinality(V))

\* cheapest cost of a chain of zero or more legal steps from s to g
DistTo(m, s, g) ==
    LET D == Dist(m, s)
    IN  IF \E p \in D : p[1] = g THEN Get(D, g) ELSE INF

\* cheapest cost of a chain of one or more legal steps from s to g
ShortestCost(m, s, g) ==
    LET D == Dist(m, s)
    IN  MinScore({INF} \cup
           {Add(p[2], travel_cost(m, p[1], g)) : p \in {q \in D : Edge(m, q[1], g)}})

RECURSIVE PathCost(_, _)
PathCost(m, p) ==
    IF Len(p) < 2 THEN Zero
    ELSE Add(travel_cost(m, p[1], p[2]), PathCost(m, Tail(p)))

\* the vertices of a graph, with the two endpoints of the search
Vertices(m, s, g) ==
    IF m.kind = "grid"
    THEN {Node(c[1], c[2], c \in m.walls) : c \in Cells(m.width, m.height)} \cup {s, g}
    ELSE DOMAIN m.nbrs

\* the heuristic never overestimates the cheapest remaining cost
Admissible(m, s, g) ==
    \A v \in Vertices(m, s, g) : Leq(heuristic(m, v, g), DistTo(m, v, g))

\* the heuristic drops by at most the cost of a step, and is 0 at the goal
Consistent(m, s, g) ==
    /\ heuristic(m, g, g) = Zero
    /\ \A v \in Vertices(m, s, g) : \A o \in Succ(m, v) :
          Leq(heuristic(m, v, g), Add(travel_cost(m, v, o), heuristic(m, o, g)))

Returned == pc = "done"

ReturnedSome == pc = "done" /\ path # <<>>

ReturnedNone == pc = "done" /\ path = <<>>

(* ---- properties ---- *)
\* C1: a returned path starts at start, ends at goal, and each of its steps
\* is transversable.
PathValidity ==
    ReturnedSome =>
        /\ path[1] = start
        /\ path[Len(path)] = goal
        /\ \A i \in 1..(Len(path) - 1) : path_is_transversable(map, path[i], path[i + 1])

\* a path through at least one vertex between start and goal was returned
PathValidityWitness == ReturnedSome /\ Len(path) >= 3 /\ start # goal

\* C2: with an admissible and consistent heuristic, the returned path costs
\* what the cheapest chain of steps from start to goal costs.  (Stated for
\* start # goal, where the cheapest chain has one step or more in any reading.)
AdmissibleOptimality ==
    (/\ ReturnedSome
     /\ start # goal
     /\ Admissible(map, start, goal)
     /\ Consistent(map, start, goal)) =>
        PathCost(map, path) = ShortestCost(map, start, goal)

\* C3: when no chain of transversable neighbor steps leads from start to
\* goal, the search returns the absent result.
UnreachableGoal ==
    (Returned /\ ~Reachable(map, start, goal)) => path = <<>>

\* the goal is listed as a neighbor of an expanded vertex, every step into it
\* is refused, and the search ended after expanding more than the start
UnreachableGoalWitness ==
    /\ ReturnedNone
    /\ ~Reachable(map, start, goal)
    /\ Cardinality(DOMAIN node_info) >= 2
    /\ \E v \in DOMAIN node_info : \E i \in 1..Len(neighbors(map, v)) :
          neighbors(map, v)[i] = goal

\* C4: when a chain of transversable neighbor steps leads from start to
\* goal, the search returns a path, whichever vertex the selection picks
\* among equals.
Completeness ==
    (Returned /\ Reachable(map, start, goal)) => path # <<>>

\* the goal was reached although it is no neighbor of start
CompletenessWitness ==
    /\ ReturnedSome
    /\ ~Edge(map, start, goal)
    /\ Reachable(map, start, goal)

\* C5: the main loop and the walk along the parent links end: every search
\* reaches its return.
Termination == <>(pc = "done")

\* a search returned after expanding both ends of a cycle of two zero-cost steps
TerminationWitness ==
    /\ Returned
    /\ \E v \in DOMAIN node_info : \E o \in DOMAIN node_info :
          /\ v # o
          /\ Edge(map, v, o) /\ travel_cost(map, v, o) = Zero
          /\ Edge(map, o, v) /\ travel_cost(map, o, v) = Zero
          /\ ~node_info[v].g_score.inf /\ ~node_info[o].g_score.inf

\* C6: with start = goal and start a transversable neighbor of itself, the
\* returned path is the single-element sequence <<start>>.
TrivialPath ==
    (Returned /\ start = goal /\ Edge(map, start, start)) => path = <<start>>

\* C7: a finite g_score of a record never increases in a later step.
ScoreMonotonicity ==
    [][\A n \in DOMAIN node_info :
          ~node_info[n].g_score.inf =>
              /\ n \in DOMAIN node_info'
              /\ Leq(node_info'[n].g_score, node_info[n].g_score)]_vars

\* a neighbor of start, recorded at the cost of the step from start when start
\* was expanded, now holds a smaller g_score
ScoreMonotonicityWitness ==
    \E n \in DOMAIN node_info :
        /\ n # start
        /\ Edge(map, start, n)
        /\ Less(node_info[n].g_score, travel_cost(map, start, n))

\* C8: every record satisfies f_score = g_score + heuristic(point, goal).
ScoreConsistency ==
    \A n \in DOMAIN node_info :
        node_info[n].f_score = Add(node_info[n].g_score, heuristic(map, n, goal))

\* a relaxed record of a point whose heuristic is not 0
ScoreConsistencyWitness ==
    \E n \in DOMAIN node_info :
        /\ node_info[n].parent # None
        /\ heuristic(map, n, goal) # Zero

\* C9: the start's record keeps g_score 0 and no parent.
StartRecord ==
    /\ start \in DOMAIN node_info
    /\ node_info[start].g_score = Zero
    /\ node_info[start].parent = None

\* the relaxation has handled start as a neighbor reached at cost 0: over a
\* zero-cost step from a point whose own g_score is 0
StartRecordWitness ==
    /\ pc = "expand"
    /\ start # goal
    /\ Edge(map, cur_node, start)
    /\ travel_cost(map, cur_node, start) = Zero
    /\ node_info[cur_node].g_score = Zero
    /\ \A i \in 1..Len(pending) : pending[i] # start

\* C10: on a grid without walls the search from (0,0) to (n,0), n >= 1,
\* returns a path of n + 1 points.
StraightLine ==
    (/\ Returned
     /\ map.kind = "grid"
     /\ map.walls = {}
     /\ start = NodeNew(0, 0)
     /\ goal.y = 0
     /\ goal.x >= 1) => Len(path) = goal.x + 1

\* such a search over two rows returned, the goal not next to the start
StraightLineWitness ==
    /\ Returned
    /\ map.kind = "grid"
    /\ map.walls = {}
    /\ map.height >= 2
    /\ start = NodeNew(0, 0)
    /\ goal.y = 0
    /\ goal.x >= 2

\* a diagonal step between two cells that are no walls, with a wall in both
\* flanking cells
CutsCorner(m, from, to) ==
    /\ Abs(to.x - from.x) = 1 /\ Abs(to.y - from.y) = 1
    /\ ~from.is_wall /\ ~to.is_wall
    /\ get_at(m, from.x, to.y) # None /\ get_at(m, from.x, to.y)[1].is_wall
    /\ get_at(m, to.x, from.y) # None /\ get_at(m, to.x, from.y)[1].is_wall

\* C11: on the grid a diagonal step between two non-wall cells whose two
\* flanking cells are both walls is refused by path_is_transversable (and by
\* is_transversable of main.rs), and no returned path contains such a step.
CornerCutting ==
    map.kind = "grid" =>
        /\ \A from \in Vertices(map, start, goal) : \A to \in Vertices(map, start, goal) :
              CutsCorner(map, from, to) =>
                  /\ ~D2Q9_path_is_transversable(map, from, to)
                  /\ ~D2Q9_is_transversable(map, from, to)
        /\ ReturnedSome =>
              \A i \in 1..(Len(path) - 1) : ~CutsCorner(map, path[i], path[i + 1])

\* a path was returned through a cell that such a diagonal step leaves
CornerCuttingWitness ==
    /\ map.kind = "grid"
    /\ ReturnedSome
    /\ Len(path) >= 3
    /\ \E to \in Vertices(map, start, goal) : CutsCorner(map, path[2], to)

\* C12: the point an iteration removes from the open set for expansion has an
\* f_score less than or equal to that of every point of the open set at that
\* moment, whatever the size of the open set and the iteration order.
SelectionLowest ==
    [][(pc = "select" /\ pc' = "expand") =>
          /\ cur_node' \in open_list
          /\ open_list' = open_list \ {cur_node'}
          /\ \A n \in open_list :
                Leq(Entry(node_info, cur_node').f_score, Entry(node_info, n).f_score)]_vars

\* a point was just selected while a point of strictly higher f_score stayed
\* in the open set
SelectionLowestWitness ==
    /\ pc = "expand"
    /\ pending = neighbors(map, cur_node)
    /\ cur_node \notin open_list
    /\ \E n \in open_list :
          Less(Entry(node_info, cur_node).f_score, Entry(node_info, n).f_score)

\* a point that has been expanded: it has a finite g_score and has left the
\* open set
Expanded(n) ==
    /\ n \in DOMAIN node_info
    /\ ~node_info[n].g_score.inf
    /\ n \notin open_list

\* the goal has no parent link and is not in the open set; an expanded point
\* with a transversable step to the goal is the one whose neighbors are being
\* looked at, or the one the path is rebuilt from
DiscoveryState ==
    start # goal =>
        /\ goal \notin open_list
        /\ goal \in DOMAIN node_info => node_info[goal].parent = None
        /\ \A n \in DOMAIN node_info :
              (Expanded(n) /\ Edge(map, n, goal)) =>
                  \/ pc = "expand" /\ n = cur_node /\ \E i \in 1..Len(pending) : pending[i] = goal
                  \/ pc = "rebuild" /\ n = path[1]
                  \/ pc = "done" /\ ReturnedSome /\ n = path[Len(path) - 1]

\* the point being expanded when the goal is met starts the chain, stays its
\* first point while the chain is walked, and ends up just before the goal
DiscoveryStep ==
    /\ (pc = "expand" /\ pc' = "rebuild") =>
          /\ path_is_transversable(map, cur_node, goal)
          /\ path' = <<cur_node>>
    /\ (pc = "rebuild" /\ pc' = "rebuild") => (path # <<>> /\ path'[1] = path[1])
    /\ (pc = "rebuild" /\ pc' = "done") =>
          /\ path # <<>>
          /\ Len(path') = Len(path) + 1
          /\ path'[Len(path')] = goal
          /\ path'[Len(path') - 1] = path[1]

\* C13: with start # goal the goal never gets a parent link and never enters
\* the open set; the search returns at the first expanded point that has the
\* goal as a transversable neighbor, and that point is the second-to-last
\* element of the returned path.
GoalByDiscovery == [][DiscoveryStep]_vars /\ []DiscoveryState

\* a path of at least three points was returned, the goal has no record and
\* another point with a transversable step to the goal was never expanded
GoalByDiscoveryWitness ==
    /\ start # goal
    /\ ReturnedSome
    /\ Len(path) >= 3
    /\ goal \notin DOMAIN node_info
    /\ Expanded(path[Len(path) - 1])
    /\ \E n \in DOMAIN node_info :
          /\ n # path[Len(path) - 1]
          /\ ~Expanded(n)
          /\ Edge(map, n, goal)

\* what a step may do to the open set
OpenStep ==
    /\ \A n \in open_list' \ open_list :
          /\ pc = "expand" /\ pc' = "expand"
          /\ pending # <<>> /\ n = Head(pending)
          /\ cur_node' = cur_node
          /\ Less(node_info'[n].g_score, Entry(node_info, n).g_score)
          /\ node_info'[n].parent = Some(cur_node)
    /\ \A n \in open_list \ open_list' :
          pc = "select" /\ pc' = "expand" /\ n = cur_node'
    /\ (pc = "select" /\ pc' = "expand") => cur_node' \in open_list \ open_list'

\* every point of the open set has a record with a finite g_score
OpenFinite ==
    \A n \in open_list : n \in DOMAIN node_info /\ ~node_info[n].g_score.inf

\* C14: a point enters the open set only in a step that strictly lowers its
\* g_score and makes the expanded point its parent, a point leaves the open
\* set exactly when it is selected for expansion, and every point of the open
\* set has a record with a finite g_score.
OpenMembership == [][OpenStep]_vars /\ []OpenFinite

\* the start has been expanded and a point inserted from the point in hand
\* waits in the open set next to a point inserted earlier
OpenMembershipWitness ==
    /\ pc = "expand"
    /\ start \notin open_list
    /\ \E n \in open_list : \E o \in open_list :
          /\ n # start /\ o # start /\ n # o
          /\ Entry(node_info, n).parent = Some(cur_node)
          /\ Entry(node_info, o).parent # Some(cur_node)

\* the parent links followed from n end within fuel links
RECURSIVE ParentChainEnds(_, _)
ParentChainEnds(n, fuel) ==
    IF n \notin DOMAIN node_info \/ node_info[n].parent = None THEN TRUE
    ELSE IF fuel = 0 THEN FALSE
    ELSE ParentChainEnds(node_info[n].parent[1], fuel - 1)

\* C16: the parent links never form a cycle, and when start # goal a returned
\* path contains no point more than once (travel costs are never negative).
SimplePath ==
    /\ \A n \in DOMAIN node_info : ParentChainEnds(n, Cardinality(DOMAIN node_info))
    /\ (ReturnedSome /\ start # goal) =>
          \A i \in 1..Len(path) : \A j \in 1..Len(path) : path[i] = path[j] => i = j

\* a path of at least three points was returned although a step of cost zero
\* leads from one of its points back to an earlier one
SimplePathWitness ==
    /\ ReturnedSome
    /\ start # goal
    /\ Len(path) >= 3
    /\ \E j \in 2..(Len(path) - 1) : \E i \in 1..(j - 1) :
          /\ Edge(map, path[j], path[i])
          /\ travel_cost(map, path[j], path[i]) = Zero

\* the heuristic drops by at most the cost of a step (its value at the goal
\* is left open)
Monotone(m, s, g) ==
    \A v \in Vertices(m, s, g) : \A o \in Succ(m, v) :
        Leq(heuristic(m, v, g), Add(travel_cost(m, v, o), heuristic(m, o, g)))

\* a step puts a point back into the open set that had been expanded
Reinserted == \E n \in open_list' \ open_list : Expanded(n)

\* C17: with a consistent heuristic (and travel costs never negative) a point
\* that has been expanded is never inserted into the open set again, so no
\* point is selected for expansion twice, for every tie-breaking order.
SingleExpansion == [][Reinserted => ~Monotone(map, start, goal)]_vars

\* with a consistent heuristic the neighbor looked at is an expanded point
\* other than the one in hand, reached by a transversable step
SingleExpansionWitness ==
    /\ pc = "expand"
    /\ pending # <<>>
    /\ Head(pending) # goal
    /\ Head(pending) # cur_node
    /\ Head(pending) # start
    /\ Expanded(Head(pending))
    /\ path_is_transversable(map, cur_node, Head(pending))
    /\ Monotone(map, start, goal)

\* C15: with an admissible and consistent heuristic two calls of a_star on
\* the same graph, start and goal, which differ only in the order the open
\* set is iterated in, return the same kind of result (both absent or both a
\* path) and, when a path, paths of equal total travel cost.
TieBreakIndependence ==
    (/\ pc = "done"
     /\ first_run # None
     /\ Consistent(map, start, goal)
     /\ Admissible(map, start, goal)) =>
        /\ (first_run[1] = <<>>) <=> (path = <<>>)
        /\ PathCost(map, first_run[1]) = PathCost(map, path)

====
